---- MODULE Spec2Model ----
(***************************************************************************)
(* A model of the document-analysis assistant: the content chunker, the    *)
(* section extractor, the prompt compiler, the temporary-file handling of  *)
(* the document processor and the chat session's handlers.                 *)
(***************************************************************************)
EXTENDS Integers, Sequences, FiniteSets, TLC

VARIABLES
    \* ---- chunk_content (utils.py) ----
    content,            \* the text: [len, dots], dots = the offsets holding '.'
    chunk_size,
    overlap,
    start,              \* the loop's start offset
    chunks,             \* the list of chunks, each the offsets it was cut at
    cpc,                \* "call" | "loop" | "done" | "idle"
    \* ---- extract_sections (utils.py) ----
    sect_content,       \* the text, a sequence of characters
    sections,           \* the mapping returned: title -> body
    spc,                \* "call" | "done" | "idle"
    \* ---- generate_prompt (mcp_actions.py) ----
    p_doc,              \* document_content, a string (its lines)
    p_sel,              \* selected_actions, a list of keys
    prompt,             \* the string returned (its lines)
    ppc,                \* "call" | "done" | "idle"
    \* ---- the chat session (app.py, document_processor.py) ----
    started,            \* on_chat_start has set up the session state
    document_content,   \* cl.user_session "document_content"
    document_name,      \* cl.user_session "document_name"
    selected_actions,   \* cl.user_session "selected_actions"
    up,                 \* the running handle_file_upload: [pc, file]
    pd,                 \* the running process_document: [pc, ext, result, raised]
    pr,                 \* the running process_document_with_actions
    tmp_files,          \* the temporary files on disk, by the upload they copy
    ai_request,         \* the prompt of the backend call in flight
    reply,              \* the last message sent on its own
    up_msg,             \* handle_file_upload's processing_msg (its content)
    pr_msg              \* process_document_with_actions' processing_msg

chunkVars == <<content, chunk_size, overlap, start, chunks, cpc>>
sectVars == <<sect_content, sections, spc>>
promptVars == <<p_doc, p_sel, prompt, ppc>>
sessionVars == <<started, document_content, document_name, selected_actions>>
handlerVars == <<up, pd, pr, tmp_files, ai_request>>
msgVars == <<reply, up_msg, pr_msg>>
chatVars == <<sessionVars, handlerVars, msgVars>>

vars == <<chunkVars, sectVars, promptVars, chatVars>>

\* What each part of the program leaves alone.
notChunk == <<sectVars, promptVars, chatVars>>
notSect == <<chunkVars, promptVars, chatVars>>
notPrompt == <<chunkVars, sectVars, chatVars>>
notChat == <<chunkVars, sectVars, promptVars>>

\* ------------------------------------------------------------------------
\* Bounds of the model
\* ------------------------------------------------------------------------
MaxLen == 4         \* short contents have 0..MaxLen characters
LongLen == 206      \* the one long content's length (longer than the 200 window)
MaxDots == 2        \* at most this many '.' in a content
MinChunk == 1       \* chunk_size ranges over -MinChunk..MaxChunk
MaxChunk == 3
BigChunk == 100     \* one chunk_size that makes start + chunk_size - 200 wrap
MaxOverlap == 4     \* overlap ranges over -1..MaxOverlap
MaxIter == 6        \* the loop is followed for at most this many chunks
MaxLines == 5       \* extract_sections is run on texts of 1..MaxLines lines
MaxSel == 2         \* generate_prompt is run on selections of 0..MaxSel keys
MaxTokens == 2      \* a selection message has 1..MaxTokens comma-separated parts

\* The width of the sentence-boundary search on either side of the raw cut.
SearchWindow == 200

MaxOf(S) == CHOOSE x \in S : \A y \in S : y <= x

\* ------------------------------------------------------------------------
\* Python's index rules
\* ------------------------------------------------------------------------
\* A slice or search index i against a string of n characters: a negative
\* index counts from the end, and the result is clipped to 0..n.
PyIndex(i, n) ==
    IF i < 0 THEN (IF i + n < 0 THEN 0 ELSE i + n)
    ELSE (IF i > n THEN n ELSE i)

\* content.rfind('.', lo, hi): the highest offset of a '.' in the clipped
\* window, or -1.
RFindDot(c, lo, hi) ==
    LET a == PyIndex(lo, c.len)
        b == PyIndex(hi, c.len)
        S == {p \in c.dots : a <= p /\ p < b}
    IN IF S = {} THEN -1 ELSE MaxOf(S)

\* content[s:e]: the offsets [lo, hi) the slice holds (empty when hi = lo).
PySlice(c, s, e) ==
    LET a == PyIndex(s, c.len)
        b == PyIndex(e, c.len)
    IN [lo |-> a, hi |-> IF b < a THEN a ELSE b]

\* ------------------------------------------------------------------------
\* chunk_content
\* ------------------------------------------------------------------------
\* SentenceEnd with the search left open at its far end.
SentenceEndNoUpperLimit(c, st, size) ==
    RFindDot(c, st + size - SearchWindow, c.len)

\* The search for a sentence end near the raw cut.
SentenceEnd(c, st, size) ==
    RFindDot(c, st + size - SearchWindow, (st + size) + SearchWindow)

\* The end offset of the chunk that starts at st.
ChunkEnd(c, st, size) ==
    LET end == st + size
        sentence_end == SentenceEnd(c, st, size)
    IN IF end < c.len /\ sentence_end > st THEN sentence_end + 1 ELSE end

\* The start of the next chunk.
NextStart(st, size, ov, end) ==
    IF st + size - ov >= end THEN st + size - ov ELSE end

\* The entry of chunk_content: the whole content when it fits one chunk.
ChunkCall ==
    /\ cpc = "call"
    /\ IF content.len <= chunk_size
       THEN /\ chunks' = <<[lo |-> 0, hi |-> content.len]>>
            /\ cpc' = "done"
       ELSE /\ chunks' = <<>>
            /\ cpc' = "loop"
    /\ start' = 0
    /\ UNCHANGED <<content, chunk_size, overlap>>
    /\ UNCHANGED notChunk

\* One iteration of the while loop.
ChunkIter ==
    /\ cpc = "loop"
    /\ start < content.len
    /\ Len(chunks) < MaxIter
    /\ LET end == ChunkEnd(content, start, chunk_size)
       IN /\ chunks' = Append(chunks, PySlice(content, start, end))
          /\ start' = NextStart(start, chunk_size, overlap, end)
    /\ UNCHANGED <<content, chunk_size, overlap, cpc>>
    /\ UNCHANGED notChunk

\* The loop's exit: return chunks.
ChunkReturn ==
    /\ cpc = "loop"
    /\ ~(start < content.len)
    /\ cpc' = "done"
    /\ UNCHANGED <<content, chunk_size, overlap, start, chunks>>
    /\ UNCHANGED notChunk

\* The contents the chunker is run on: the length and where the '.' are.
DotPlaces(n) ==
    {p \in 0..(n - 1) : p < MaxLen \/ p >= SearchWindow - 2}


ChunkArgs ==
    /\ \E n \in (0..MaxLen) \cup {LongLen} :
         \E D \in SUBSET DotPlaces(n) :
            /\ Cardinality(D) <= MaxDots
            /\ content = [len |-> n, dots |-> D]
    /\ chunk_size \in ((0 - MinChunk)..MaxChunk) \cup {BigChunk}
    /\ overlap \in (0 - 1)..MaxOverlap
    /\ start = 0
    /\ chunks = <<>>
    /\ cpc = "call"

ChunkIdle ==
    /\ content = [len |-> 0, dots |-> {}]
    /\ chunk_size = 0
    /\ overlap = 0
    /\ start = 0
    /\ chunks = <<>>
    /\ cpc = "idle"

ChunkNext == ChunkCall \/ ChunkIter \/ ChunkReturn

\* ------------------------------------------------------------------------
\* Strings as sequences of characters
\* ------------------------------------------------------------------------
UpperChars == {"A", "B"}
LowerChars == {"a"}
DigitChars == {"1"}
SpaceChars == {" ", "\n"}

RECURSIVE LStrip(_)
LStrip(s) ==
    IF s = <<>> THEN s
    ELSE IF Head(s) \in SpaceChars THEN LStrip(Tail(s)) ELSE s

RECURSIVE RStrip(_)
RStrip(s) ==
    IF s = <<>> THEN s
    ELSE IF s[Len(s)] \in SpaceChars THEN RStrip(SubSeq(s, 1, Len(s) - 1)) ELSE s

\* str.strip()
Strip(s) == RStrip(LStrip(s))

\* str.split('\n')
RECURSIVE SplitLines(_)
SplitLines(s) ==
    IF \A i \in 1..Len(s) : s[i] # "\n" THEN <<s>>
    ELSE LET i == CHOOSE k \in 1..Len(s) :
                    s[k] = "\n" /\ \A j \in 1..(k - 1) : s[j] # "\n"
         IN <<SubSeq(s, 1, i - 1)>> \o SplitLines(SubSeq(s, i + 1, Len(s)))

\* '\n'.join(lines)
RECURSIVE JoinLines(_)
JoinLines(ls) ==
    IF ls = <<>> THEN <<>>
    ELSE IF Len(ls) = 1 THEN ls[1]
    ELSE ls[1] \o <<"\n">> \o JoinLines(Tail(ls))

\* str.isupper(): at least one cased character and no lower-case one.
IsUpper(s) ==
    /\ \E i \in 1..Len(s) : s[i] \in UpperChars
    /\ \A i \in 1..Len(s) : s[i] \notin LowerChars

\* re.match(r'^[0-9]+\.', s)
MatchEnumeration(s) ==
    \E k \in 1..(Len(s) - 1) :
        /\ \A i \in 1..k : s[i] \in DigitChars
        /\ s[k + 1] = "."

\* re.match(r'^[A-Z][A-Z\s]+$', s)
MatchAllCaps(s) ==
    /\ Len(s) >= 2
    /\ s[1] \in UpperChars
    /\ \A i \in 2..Len(s) : s[i] \in UpperChars \cup SpaceChars

\* ------------------------------------------------------------------------
\* extract_sections
\* ------------------------------------------------------------------------
HeaderMaxLen == 100

Introduction == <<"I", "n", "t", "r", "o", "d", "u", "c", "t", "i", "o", "n">>

\* Whether a line looks like a header.
IsHeader(line) ==
    /\ Len(Strip(line)) < HeaderMaxLen
    /\ \/ IsUpper(line)
       \/ MatchEnumeration(Strip(line))
       \/ MatchAllCaps(Strip(line))

\* sections[key] = value
DictSet(d, key, value) ==
    [k \in (DOMAIN d) \cup {key} |-> IF k = key THEN value ELSE d[k]]

\* The body stored for the lines gathered under a title.
SectionBody(current_content) == Strip(JoinLines(current_content))

\* "if current_content: sections[current_section] = ..."
SaveSection(st) ==
    IF st.current_content # <<>>
    THEN DictSet(st.sections, st.current_section,
                 SectionBody(st.current_content))
    ELSE st.sections

\* LineStep without the reset of current_content at a header.
LineStepNoReset(st, line) ==
    IF IsHeader(line)
    THEN [sections |-> SaveSection(st),
          current_section |-> Strip(line),
          current_content |-> st.current_content]
    ELSE [st EXCEPT !.current_content = Append(@, line)]

\* The body of the for loop, for one line.
LineStep(st, line) ==
    IF IsHeader(line)
    THEN [sections |-> SaveSection(st),
          current_section |-> Strip(line),
          current_content |-> <<>>]
    ELSE [st EXCEPT !.current_content = Append(@, line)]

RECURSIVE ForLines(_, _)
ForLines(st, lines) ==
    IF lines = <<>> THEN st
    ELSE ForLines(LineStep(st, Head(lines)), Tail(lines))

extract_sections(text) ==
    SaveSection(ForLines([sections |-> <<>>,
                          current_section |-> Introduction,
                          current_content |-> <<>>],
                         SplitLines(text)))

\* The call of extract_sections on sect_content.
SectCall ==
    /\ spc = "call"
    /\ sections' = extract_sections(sect_content)
    /\ spc' = "done"
    /\ UNCHANGED sect_content
    /\ UNCHANGED notSect

\* The lines the texts are made of: headers of each kind (two of them with
\* the same title once trimmed), body lines, a padded body line, a blank line.
SampleLines ==
    { <<"A", "B">>, <<"A">>, <<" ", "A">>, <<"1", ".", "a">>,
      <<"a">>, <<" ", "a", " ">>, <<>> }

RECURSIVE LineSeqs(_)
LineSeqs(n) ==
    IF n = 0 THEN {<<>>}
    ELSE {Append(ls, l) : ls \in LineSeqs(n - 1), l \in SampleLines}

SectArgs ==
    /\ \E n \in 1..MaxLines : \E ls \in LineSeqs(n) :
          sect_content = JoinLines(ls)
    /\ sections = <<>>
    /\ spc = "call"

SectIdle ==
    /\ sect_content = <<>>
    /\ sections = <<>>
    /\ spc = "idle"

SectNext == SectCall

\* ------------------------------------------------------------------------
\* The action catalog (MCPActions.actions)
\* ------------------------------------------------------------------------
\* The keys, in the order of the dictionary.
ActionKeys ==
    << "summarize", "analyze", "extract_key_points", "generate_questions",
       "identify_entities", "sentiment_analysis", "action_items", "translate" >>

CatalogKeys == {ActionKeys[i] : i \in 1..Len(ActionKeys)}

ActionName(key) ==
    CASE key = "summarize" -> "Summarize Document"
      [] key = "analyze" -> "Analyze Content"
      [] key = "extract_key_points" -> "Extract Key Points"
      [] key = "generate_questions" -> "Generate Questions"
      [] key = "identify_entities" -> "Identify Entities"
      [] key = "sentiment_analysis" -> "Sentiment Analysis"
      [] key = "action_items" -> "Extract Action Items"
      [] key = "translate" -> "Language Detection"

ActionPrompt(key) ==
    CASE key = "summarize" -> "Please provide a detailed summary of this document, highlighting the main points and key information."
      [] key = "analyze" -> "Please analyze this document in detail, including themes, tone, writing style, structure, and any notable patterns or insights."
      [] key = "extract_key_points" -> "Please extract and list the key points from this document in a clear, organized format."
      [] key = "generate_questions" -> "Generate thoughtful questions that could be asked about this document, including comprehension questions and discussion points."
      [] key = "identify_entities" -> "Identify and categorize all named entities in this document, including people, places, organizations, dates, and other significant entities."
      [] key = "sentiment_analysis" -> "Analyze the sentiment and emotional tone of this document, identifying positive, negative, and neutral elements."
      [] key = "action_items" -> "Extract any action items, tasks, recommendations, or next steps mentioned in this document."
      [] key = "translate" -> "Detect the primary language of this document and identify any foreign terms or phrases that might need translation."

\* self.actions.get(key) is not None
InCatalog(key) == key \in CatalogKeys

\* validate_actions: the keys of the catalog, in their order.
validate_actions(action_keys) == SelectSeq(action_keys, InCatalog)

\* ------------------------------------------------------------------------
\* generate_prompt
\* ------------------------------------------------------------------------
\* A string is the sequence of its lines; the empty string has one empty
\* line.  A line of plain text, and the line f"{i}. {name}: {prompt}".
TextLine(t) == [n |-> 0, name |-> t, instr |-> ""]

TaskLine(i, key) == [n |-> i, name |-> ActionName(key), instr |-> ActionPrompt(key)]

EmptyString == <<TextLine("")>>

\* A string given by its lines of plain text.
Text(ls) == [i \in 1..Len(ls) |-> TextLine(ls[i])]

\* "=" * 50
Delimiter == "=================================================="

\* "\n".join(parts), for a non-empty list of strings.
RECURSIVE JoinParts(_)
JoinParts(parts) ==
    IF Len(parts) = 1 THEN parts[1]
    ELSE parts[1] \o JoinParts(Tail(parts))

\* The parts up to the task list.
PromptHead(doc) ==
    << Text(<<"You are an expert document analysis assistant. Please analyze the following document and complete the requested tasks.">>),
       Text(<<"">>),
       Text(<<"DOCUMENT CONTENT:">>),
       Text(<<Delimiter>>),
       doc,
       Text(<<Delimiter>>),
       Text(<<"">>),
       Text(<<"REQUESTED ANALYSIS TASKS:">>) >>

\* The parts after the task list.
PromptTail ==
    << Text(<<"">>),
       Text(<<"INSTRUCTIONS:">>),
       Text(<<"- Please complete each requested task thoroughly and professionally">>),
       Text(<<"- Structure your response clearly with headers for each task">>),
       Text(<<"- Provide detailed, actionable insights">>),
       Text(<<"- If any task cannot be completed due to document content limitations, explain why">>),
       Text(<<"- Use markdown formatting for better readability">>),
       Text(<<"">>),
       Text(<<"Please begin your analysis:">>) >>

\* TaskPart with a line appended for a key the catalog does not hold.
TaskPartUnchecked(i, action_key) ==
    IF InCatalog(action_key)
    THEN << <<TaskLine(i, action_key)>> >>
    ELSE << <<[n |-> i, name |-> "None", instr |-> "None"]>> >>

\* The part the loop appends for the i-th selected key: none for a key the
\* catalog does not hold.
TaskPart(i, action_key) ==
    IF InCatalog(action_key)
    THEN << <<TaskLine(i, action_key)>> >>
    ELSE << >>

\* for i, action_key in enumerate(selected, 1), from the i-th on.
RECURSIVE TaskParts(_, _)
TaskParts(selected, i) ==
    IF i > Len(selected) THEN << >>
    ELSE TaskPart(i, selected[i]) \o TaskParts(selected, i + 1)

generate_prompt(doc, selected) ==
    IF selected = << >>
    THEN EmptyString
    ELSE JoinParts(PromptHead(doc)
                   \o TaskParts(selected, 1)
                   \o PromptTail)

\* The call of generate_prompt on p_doc and p_sel.
PromptCall ==
    /\ ppc = "call"
    /\ prompt' = generate_prompt(p_doc, p_sel)
    /\ ppc' = "done"
    /\ UNCHANGED <<p_doc, p_sel>>
    /\ UNCHANGED notPrompt

\* The documents generate_prompt is run on: the empty string, a line, two
\* lines, and a text that holds the task list's own heading.
SampleDocs ==
    { Text(<<"">>),
      Text(<<"Hello world. This is a test document with more than ten characters.">>),
      Text(<<"First line.", "Second line.">>),
      Text(<<"REQUESTED ANALYSIS TASKS:", "", "INSTRUCTIONS:">>) }

RECURSIVE KeySeqs(_)
KeySeqs(n) ==
    IF n = 0 THEN {<<>>}
    ELSE {Append(ks, k) : ks \in KeySeqs(n - 1), k \in CatalogKeys \cup {"bogus"}}

PromptArgs ==
    /\ p_doc \in SampleDocs
    /\ \E n \in 0..MaxSel : p_sel \in KeySeqs(n)
    /\ prompt = EmptyString
    /\ ppc = "call"

PromptIdle ==
    /\ p_doc = EmptyString
    /\ p_sel = <<>>
    /\ prompt = EmptyString
    /\ ppc = "idle"

PromptNext == PromptCall

\* ------------------------------------------------------------------------
\* Documents, uploads and validate_content
\* ------------------------------------------------------------------------
\* A document's text: what it says (text) and its size, as the whitespace
\* before the first and after the last visible character (lead, trail) and
\* the characters from the first to the last visible one (core); enc tells
\* whether content.encode('utf-8') succeeds.  NoContent is None.
NoContent == [none |-> TRUE, text |-> "", lead |-> 0, core |-> 0, trail |-> 0, enc |-> TRUE]

Str(text, lead, core, trail, enc) ==
    [none |-> FALSE, text |-> text, lead |-> lead, core |-> core, trail |-> trail, enc |-> enc]

\* len(content) and len(content.strip())
ContentLen(c) == c.lead + c.core + c.trail

StripLen(c) == c.core

\* bool(content): neither None nor the empty string.
Truthy(c) == ~c.none /\ ContentLen(c) > 0

MinContentLen == 10

LongContentLen == 50000

\* validate_content(content)
validate_content(c) ==
    LET too_short == StripLen(c) < MinContentLen
        unencodable == ~c.enc
        empty == StripLen(c) = 0
    IN [is_valid |-> ~too_short /\ ~unencodable /\ ~empty,
        issues |-> (IF too_short THEN <<"Document content is too short (less than 10 characters)">> ELSE <<>>)
                   \o (IF unencodable THEN <<"Document contains characters that cannot be processed">> ELSE <<>>)
                   \o (IF empty THEN <<"Document appears to be empty or contains no readable text">> ELSE <<>>),
        warnings |-> IF ContentLen(c) > LongContentLen
                     THEN <<"Document is very long and may take significant time to process">>
                     ELSE <<>>,
        length |-> ContentLen(c)]

\* A file name is stem + suffix, the suffix being its last ".xyz" (or "").
NoName == [none |-> TRUE, stem |-> "", suffix |-> ""]

Name(stem, suffix) == [none |-> FALSE, stem |-> stem, suffix |-> suffix]

\* str.lower() of a suffix
Lower(suffix) ==
    CASE suffix = ".PDF" -> ".pdf"
      [] suffix = ".DOCX" -> ".docx"
      [] suffix = ".TXT" -> ".txt"
      [] OTHER -> suffix

SUPPORTED_EXTENSIONS == {".pdf", ".docx", ".txt"}

\* is_supported_file that takes any extension for a supported one.
is_supported_file_any_extension(name) == name.suffix # ""

\* DocumentProcessor.is_supported_file: filename.lower() ends with one of
\* the supported extensions.
is_supported_file(name) == Lower(name.suffix) \in SUPPORTED_EXTENSIONS

\* os.path.splitext(name)[1].lower(): a name that is only ".xyz" has no
\* extension.
FileExtension(name) == IF name.stem = "" THEN "" ELSE Lower(name.suffix)

\* An upload: its name, where its bytes are (inline "content", a readable
\* "path", or a path that cannot be read, "badpath") and the text a reader
\* finds in it (NoContent: none).
Upload(stem, suffix, source, text) ==
    [name |-> Name(stem, suffix), source |-> source, text |-> text]

Uploads ==
    { Upload("report", ".PDF", "content", Str("Quarterly report", 0, 40, 1, TRUE)),
      Upload("notes", ".txt", "path", Str("hi", 0, 2, 1, TRUE)),
      Upload("scan", ".docx", "path", NoContent),
      Upload("lost", ".txt", "badpath", Str("Lost text file", 0, 14, 0, TRUE)),
      Upload("image", ".png", "content", NoContent),
      Upload("archive.pdf", ".bak", "content", Str("Old report", 0, 10, 0, TRUE)),
      Upload("pdf", "", "path", Str("No extension", 0, 12, 0, TRUE)),
      Upload("", ".pdf", "content", Str("A PDF named .pdf", 0, 16, 0, TRUE)) }

NoUpload == Upload("", "", "content", NoContent)

\* ------------------------------------------------------------------------
\* DocumentProcessor.process_document
\* ------------------------------------------------------------------------
PageMarkerLen == 15

\* _process_pdf, _process_docx, _process_txt: the text, or an error when the
\* file holds no readable text.  The PDF reader puts "--- Page 1 ---\n"
\* before the page's text.
ExtractText(ext, file) ==
    IF file.text.none \/ StripLen(file.text) = 0
    THEN [raised |-> TRUE, value |-> NoContent]
    ELSE IF ext = ".pdf"
    THEN [raised |-> FALSE,
          value |-> [file.text EXCEPT !.lead = 0,
                                      !.core = PageMarkerLen + file.text.lead + @]]
    ELSE [raised |-> FALSE, value |-> file.text]

PdIdle == [pc |-> "idle", ext |-> "", raised |-> FALSE, value |-> NoContent]

\* The temporary file of the running upload.
TempFile == up.file.name

\* tempfile.NamedTemporaryFile(delete=False, suffix=file_extension)
PdCreateTemp ==
    /\ pd.pc = "create"
    /\ tmp_files' = tmp_files \cup {TempFile}
    /\ pd' = [pd EXCEPT !.pc = "copy", !.ext = FileExtension(up.file.name)]
    /\ UNCHANGED <<sessionVars, up, pr, ai_request, msgVars>>
    /\ UNCHANGED notChat

\* The body of the with block: the upload's bytes are written to the
\* temporary file; an error reading the source leaves the block, and the
\* function, through "except Exception", before the try/finally is entered.
PdCopy ==
    /\ pd.pc = "copy"
    /\ IF up.file.source = "badpath"
       THEN pd' = [pd EXCEPT !.pc = "exit", !.raised = TRUE]
       ELSE pd' = [pd EXCEPT !.pc = "extract"]
    /\ UNCHANGED <<sessionVars, up, pr, tmp_files, ai_request, msgVars>>
    /\ UNCHANGED notChat

\* The try block: the reader for the extension, or ValueError for any other.
PdExtract ==
    /\ pd.pc = "extract"
    /\ LET r == IF pd.ext \in SUPPORTED_EXTENSIONS
                THEN ExtractText(pd.ext, up.file)
                ELSE [raised |-> TRUE, value |-> NoContent]
       IN pd' = [pd EXCEPT !.pc = "finally", !.raised = r.raised, !.value = r.value]
    /\ UNCHANGED <<sessionVars, up, pr, tmp_files, ai_request, msgVars>>
    /\ UNCHANGED notChat

\* The finally block: os.unlink(temp_file_path).
PdUnlink ==
    /\ pd.pc = "finally"
    /\ tmp_files' = tmp_files \ {TempFile}
    /\ pd' = [pd EXCEPT !.pc = "exit"]
    /\ UNCHANGED <<sessionVars, up, pr, ai_request, msgVars>>
    /\ UNCHANGED notChat

\* ------------------------------------------------------------------------
\* Messages, the AI call and format_response
\* ------------------------------------------------------------------------
\* A string the backend call yields: plain text, or the error description
\* f"Error processing with AI: {e}\n\nPlease check your API configuration
\* and try again." (err).  NoResponse is None.
NoResponse == [none |-> TRUE, err |-> FALSE, text |-> ""]

ResponseText(t) == [none |-> FALSE, err |-> FALSE, text |-> t]

ErrorDescription(e) == [none |-> FALSE, err |-> TRUE, text |-> e]

\* bool(response)
ResponseTruthy(r) == ~r.none /\ (r.err \/ r.text # "")

\* What the backend does with a request: an answer, an answer without
\* content, or an error.
BackendOutcomes ==
    { [kind |-> "ok", text |-> "## Summary"],
      [kind |-> "ok", text |-> ""],
      [kind |-> "error", text |-> "Connection error."] }

\* process_with_ai that lets the backend's error through.
process_with_ai_reraising(outcome) ==
    IF outcome.kind = "ok"
    THEN [raised |-> FALSE, value |-> ResponseText(outcome.text)]
    ELSE [raised |-> TRUE, value |-> NoResponse]

\* MCPActions.process_with_ai, given what the backend did.
process_with_ai(outcome) ==
    IF outcome.kind = "ok"
    THEN [raised |-> FALSE, value |-> ResponseText(outcome.text)]
    ELSE [raised |-> FALSE, value |-> ErrorDescription(outcome.text)]

\* A message's content: its kind, and for a report the parts of the envelope.
Message(kind) ==
    [kind |-> kind, header |-> "", document |-> NoName, actions_completed |-> 0,
     rule |-> "", body |-> NoResponse, footer |-> ""]

NoMessage == Message("none")

UnknownDocument == Name("Unknown Document", "")

\* format_response(ai_response, selected_actions, document_name)
format_response(ai_response, selected, name) ==
    [kind |-> "report",
     header |-> "# Document Analysis Results",
     document |-> name,
     actions_completed |-> Len(selected),
     rule |-> "---",
     body |-> ai_response,
     footer |-> "*Analysis completed by MCP Document Processing Agent*"]

\* The text of a document as generate_prompt's document_content.
DocumentText(c) == Text(<<c.text>>)

\* ------------------------------------------------------------------------
\* User input and handle_action_selection
\* ------------------------------------------------------------------------
\* A message's text is its comma-separated parts.  A part is an integer
\* literal, or a word; digit tells whether it holds a digit.
IntPart(n) == [word |-> "", isint |-> TRUE, val |-> n, digit |-> TRUE]

WordPart(w, digit) == [word |-> w, isint |-> FALSE, val |-> 0, digit |-> digit]

Commands == {"help", "actions", "process", "all"}

\* The parts of a list: an index of the catalog, an index past its end, and
\* a part with a digit that is no integer.
SelectionParts ==
    {IntPart(n) : n \in {1, 9}} \cup {WordPart("2a", TRUE)}

RECURSIVE PartSeqs(_)
PartSeqs(n) ==
    IF n = 0 THEN {<<>>}
    ELSE {Append(ps, q) : ps \in PartSeqs(n - 1), q \in SelectionParts}

\* The texts a user sends: a command, another word, or 1..MaxTokens parts.
UserInputs ==
    {<<WordPart(w, FALSE)>> : w \in Commands \cup {"hello"}}
    \cup UNION {PartSeqs(n) : n \in 1..MaxTokens}

IsCommand(input, w) == input = <<WordPart(w, FALSE)>>

\* [actions[i-1] for i in action_numbers if 1 <= i <= len(actions)], from
\* the k-th number on.
RECURSIVE PickActions(_, _)
PickActions(input, k) ==
    IF k > Len(input) THEN <<>>
    ELSE (IF 1 <= input[k].val /\ input[k].val <= Len(ActionKeys)
          THEN <<ActionKeys[input[k].val]>> ELSE <<>>)
         \o PickActions(input, k + 1)

\* handle_action_selection with the new keys added to the stored ones.
SelectionAppending(input, current) ==
    IF IsCommand(input, "all")
    THEN [set |-> TRUE, value |-> current \o ActionKeys, reply |-> "all_selected"]
    ELSE IF \E k \in 1..Len(input) : input[k].digit
    THEN IF \E k \in 1..Len(input) : ~input[k].isint
         THEN [set |-> FALSE, value |-> current, reply |-> "invalid_format"]
         ELSE IF PickActions(input, 1) # <<>>
         THEN [set |-> TRUE, value |-> current \o PickActions(input, 1), reply |-> "selected"]
         ELSE [set |-> FALSE, value |-> current, reply |-> "invalid_numbers"]
    ELSE [set |-> FALSE, value |-> current, reply |-> "not_understood"]

\* handle_action_selection(user_input): whether the session's selection is
\* set, to what, and the message sent.  current is the stored selection.
Selection(input, current) ==
    IF IsCommand(input, "all")
    THEN [set |-> TRUE, value |-> ActionKeys, reply |-> "all_selected"]
    ELSE IF \E k \in 1..Len(input) : input[k].digit
    THEN IF \E k \in 1..Len(input) : ~input[k].isint
         THEN [set |-> FALSE, value |-> current, reply |-> "invalid_format"]
         ELSE IF PickActions(input, 1) # <<>>
         THEN [set |-> TRUE, value |-> PickActions(input, 1), reply |-> "selected"]
         ELSE [set |-> FALSE, value |-> current, reply |-> "invalid_numbers"]
    ELSE [set |-> FALSE, value |-> current, reply |-> "not_understood"]

\* ------------------------------------------------------------------------
\* The handlers of app.py
\* ------------------------------------------------------------------------
UpIdle == [pc |-> "idle", file |-> NoUpload]

NoOutcome == [kind |-> "none", text |-> ""]

\* The locals of process_document_with_actions, and what the backend did
\* with its request (backend).
PrIdle == [pc |-> "idle", document_content |-> NoContent, document_name |-> NoName,
           selected_actions |-> <<>>, backend |-> NoOutcome,
           response |-> NoResponse, raised |-> FALSE]

\* process_document runs without suspending: nothing else runs until it
\* has returned to handle_file_upload.
NoCallRunning == pd.pc = "idle"

\* on_chat_start: start()
Start ==
    /\ ~started
    /\ started' = TRUE
    /\ document_content' = NoContent
    /\ document_name' = NoName
    /\ selected_actions' = <<>>
    /\ reply' = Message("welcome")
    /\ UNCHANGED <<handlerVars, up_msg, pr_msg>>
    /\ UNCHANGED notChat

\* main: "help" and "actions"
ShowInfo ==
    /\ started /\ NoCallRunning
    /\ \E w \in {"help", "actions"} :
          reply' = Message(IF w = "help" THEN "help" ELSE "available_actions")
    /\ UNCHANGED <<sessionVars, handlerVars, up_msg, pr_msg>>
    /\ UNCHANGED notChat

\* main, for a text that is no command: handle_action_selection when a
\* document is stored, else the request to upload one.
SelectActions(input) ==
    /\ started /\ NoCallRunning
    /\ ~IsCommand(input, "help") /\ ~IsCommand(input, "actions")
    /\ ~IsCommand(input, "process")
    /\ IF Truthy(document_content)
       THEN LET r == Selection(input, selected_actions)
            IN /\ selected_actions' = (IF r.set THEN r.value ELSE selected_actions)
               /\ reply' = Message(r.reply)
       ELSE /\ reply' = Message("upload_first")
            /\ UNCHANGED selected_actions
    /\ UNCHANGED <<started, document_content, document_name, handlerVars, up_msg, pr_msg>>
    /\ UNCHANGED notChat

\* main with a file attached: handle_file_upload up to its first await.
UploadStart(file) ==
    /\ started /\ NoCallRunning
    /\ up.pc = "idle"
    /\ IF ~is_supported_file(file.name)
       THEN /\ reply' = Message("unsupported_file_type")
            /\ UNCHANGED <<up, up_msg>>
       ELSE /\ up' = [pc |-> "sending", file |-> file]
            /\ up_msg' = Message("processing_document")
            /\ UNCHANGED reply
    /\ UNCHANGED <<sessionVars, pd, pr, tmp_files, ai_request, pr_msg>>
    /\ UNCHANGED notChat

\* handle_file_upload resumes and calls process_document.
UploadExtract ==
    /\ NoCallRunning
    /\ up.pc = "sending"
    /\ up' = [up EXCEPT !.pc = "extracting"]
    /\ pd' = [PdIdle EXCEPT !.pc = "create"]
    /\ UNCHANGED <<sessionVars, pr, tmp_files, ai_request, msgVars>>
    /\ UNCHANGED notChat

\* handle_file_upload that clears the selection when it stores a document.
UploadStoreClearingSelection ==
    /\ up.pc = "extracting"
    /\ pd.pc = "exit"
    /\ IF pd.raised
       THEN /\ up_msg' = Message("error_processing_document")
            /\ up' = [up EXCEPT !.pc = "failed"]
            /\ UNCHANGED <<document_content, document_name, selected_actions>>
       ELSE IF ~Truthy(pd.value)
       THEN /\ up_msg' = Message("failed_to_extract")
            /\ up' = [up EXCEPT !.pc = "failed"]
            /\ UNCHANGED <<document_content, document_name, selected_actions>>
       ELSE /\ document_content' = pd.value
            /\ document_name' = up.file.name
            /\ selected_actions' = <<>>
            /\ up_msg' = Message("processed_successfully")
            /\ up' = [up EXCEPT !.pc = "stored"]
    /\ pd' = PdIdle
    /\ UNCHANGED <<started, pr, tmp_files, ai_request, reply, pr_msg>>
    /\ UNCHANGED notChat

\* process_document has returned or raised: the content is stored with the
\* file's name, or the failure is shown.
UploadStore ==
    /\ up.pc = "extracting"
    /\ pd.pc = "exit"
    /\ IF pd.raised
       THEN /\ up_msg' = Message("error_processing_document")
            /\ up' = [up EXCEPT !.pc = "failed"]
            /\ UNCHANGED <<document_content, document_name>>
       ELSE IF ~Truthy(pd.value)
       THEN /\ up_msg' = Message("failed_to_extract")
            /\ up' = [up EXCEPT !.pc = "failed"]
            /\ UNCHANGED <<document_content, document_name>>
       ELSE /\ document_content' = pd.value
            /\ document_name' = up.file.name
            /\ up_msg' = Message("processed_successfully")
            /\ up' = [up EXCEPT !.pc = "stored"]
    /\ pd' = PdIdle
    /\ UNCHANGED <<started, selected_actions, pr, tmp_files, ai_request, reply, pr_msg>>
    /\ UNCHANGED notChat

\* The message update has been awaited: show_action_selection after a
\* stored document, and the handler returns.
UploadFinish ==
    /\ NoCallRunning
    /\ up.pc \in {"stored", "failed"}
    /\ reply' = (IF up.pc = "stored" THEN Message("available_actions") ELSE reply)
    /\ up' = UpIdle
    /\ up_msg' = NoMessage
    /\ UNCHANGED <<sessionVars, pd, pr, tmp_files, ai_request, pr_msg>>
    /\ UNCHANGED notChat

\* process_document_with_actions without its test of the selection.
ProcessStartUnchecked ==
    /\ started /\ NoCallRunning
    /\ pr.pc = "idle"
    /\ IF ~Truthy(document_content)
       THEN /\ reply' = Message("no_document_uploaded")
            /\ UNCHANGED <<pr, pr_msg>>
       ELSE /\ pr' = [PrIdle EXCEPT !.pc = "sending",
                                    !.document_content = document_content,
                                    !.document_name = document_name,
                                    !.selected_actions = selected_actions]
            /\ pr_msg' = Message("processing_with_actions")
            /\ UNCHANGED reply
    /\ UNCHANGED <<sessionVars, up, pd, tmp_files, ai_request, up_msg>>
    /\ UNCHANGED notChat

\* main, "process": process_document_with_actions up to its first await.
ProcessStart ==
    /\ started /\ NoCallRunning
    /\ pr.pc = "idle"
    /\ IF ~Truthy(document_content)
       THEN /\ reply' = Message("no_document_uploaded")
            /\ UNCHANGED <<pr, pr_msg>>
       ELSE IF selected_actions = <<>>
       THEN /\ reply' = Message("no_actions_selected")
            /\ UNCHANGED <<pr, pr_msg>>
       ELSE /\ pr' = [PrIdle EXCEPT !.pc = "sending",
                                    !.document_content = document_content,
                                    !.document_name = document_name,
                                    !.selected_actions = selected_actions]
            /\ pr_msg' = Message("processing_with_actions")
            /\ UNCHANGED reply
    /\ UNCHANGED <<sessionVars, up, pd, tmp_files, ai_request, up_msg>>
    /\ UNCHANGED notChat

\* The prompt is compiled and sent to the backend.
ProcessCallAI ==
    /\ NoCallRunning
    /\ pr.pc = "sending"
    /\ ai_request' = generate_prompt(DocumentText(pr.document_content),
                                     pr.selected_actions)
    /\ pr' = [pr EXCEPT !.pc = "awaiting_ai"]
    /\ UNCHANGED <<sessionVars, up, pd, tmp_files, msgVars>>
    /\ UNCHANGED notChat

\* The backend call ends: the report, or a failure message, is shown.
ProcessResponse(outcome) ==
    /\ NoCallRunning
    /\ pr.pc = "awaiting_ai"
    /\ LET r == process_with_ai(outcome)
       IN /\ pr' = [pr EXCEPT !.pc = IF ~r.raised /\ ResponseTruthy(r.value)
                                     THEN "reported" ELSE "failed",
                              !.backend = outcome,
                              !.response = r.value,
                              !.raised = r.raised]
          /\ pr_msg' =
               IF r.raised THEN Message("error_during_processing")
               ELSE IF ResponseTruthy(r.value)
               THEN format_response(r.value, pr.selected_actions,
                                    IF pr.document_name.none
                                       \/ (pr.document_name.stem = ""
                                           /\ pr.document_name.suffix = "")
                                    THEN UnknownDocument ELSE pr.document_name)
               ELSE Message("failed_to_process_with_ai")
    /\ ai_request' = EmptyString
    /\ UNCHANGED <<sessionVars, up, pd, tmp_files, reply, up_msg>>
    /\ UNCHANGED notChat

\* The message update has been awaited: the closing message after a
\* report, and the handler returns.
ProcessFinish ==
    /\ NoCallRunning
    /\ pr.pc \in {"reported", "failed"}
    /\ reply' = (IF pr.pc = "reported" THEN Message("processing_complete") ELSE reply)
    /\ pr' = PrIdle
    /\ pr_msg' = NoMessage
    /\ UNCHANGED <<sessionVars, up, pd, tmp_files, ai_request, up_msg>>
    /\ UNCHANGED notChat

ChatInit ==
    /\ started = FALSE
    /\ document_content = NoContent
    /\ document_name = NoName
    /\ selected_actions = <<>>
    /\ up = UpIdle
    /\ pd = PdIdle
    /\ pr = PrIdle
    /\ tmp_files = {}
    /\ ai_request = EmptyString
    /\ reply = NoMessage
    /\ up_msg = NoMessage
    /\ pr_msg = NoMessage

ChatNext ==
    \/ Start
    \/ ShowInfo
    \/ \E input \in UserInputs : SelectActions(input)
    \/ \E file \in Uploads : UploadStart(file)
    \/ UploadExtract
    \/ PdCreateTemp
    \/ PdCopy
    \/ PdExtract
    \/ PdUnlink
    \/ UploadStore
    \/ UploadFinish
    \/ ProcessStart
    \/ ProcessCallAI
    \/ \E outcome \in BackendOutcomes : ProcessResponse(outcome)
    \/ ProcessFinish

\* ------------------------------------------------------------------------
\* Specifications
\* ------------------------------------------------------------------------
\* chunk_content alone, on every content and argument of the bounds.
ChunkInit == ChunkArgs /\ SectIdle /\ PromptIdle /\ ChatInit

SpecChunk == ChunkInit /\ [][ChunkNext]_vars

\* extract_sections alone, on every text of the bounds.
SectInit == SectArgs /\ ChunkIdle /\ PromptIdle /\ ChatInit

SpecSections == SectInit /\ [][SectNext]_vars

\* generate_prompt alone, on every document and selection of the bounds.
PromptInit == PromptArgs /\ ChunkIdle /\ SectIdle /\ ChatInit

SpecPrompt == PromptInit /\ [][PromptNext]_vars

\* One chat session: its handlers, interleaved at their awaits.
Init == ChatInit /\ ChunkIdle /\ SectIdle /\ PromptIdle

Next == ChatNext

Spec == Init /\ [][Next]_vars

\* ------------------------------------------------------------------------
\* Properties of chunk_content
\* ------------------------------------------------------------------------
ChunkLen(ch) == ch.hi - ch.lo

\* The offsets of content that lie in at least one returned chunk.
Covered == {p \in 0..(content.len - 1) :
              \E i \in 1..Len(chunks) : chunks[i].lo <= p /\ p < chunks[i].hi}

\* C1: chunk_content terminates for every content, chunk_size and overlap:
\* every iteration of its loop moves start strictly forward.
C1_StartStrictlyIncreases == [][ChunkIter => start' > start]_vars

\* C2: the offset ranges of the chunks chunk_content returns cover
\* [0, len(content)) with no gaps; stated here for the calls with
\* chunk_size >= 1 and 0 <= overlap < chunk_size, which always return.
C2_ChunksCoverContent ==
    (cpc = "done" /\ chunk_size >= 1 /\ 0 <= overlap /\ overlap < chunk_size)
        => Covered = 0..(content.len - 1)

\* C10 as claimed: no chunk is longer than chunk_size; stated here for the
\* calls with chunk_size >= 1 and overlap >= 0.
C10_ChunkAtMostChunkSize ==
    (chunk_size >= 1 /\ overlap >= 0) =>
        \A i \in 1..Len(chunks) : ChunkLen(chunks[i]) <= chunk_size

\* C10 as amended: with chunk_size >= 0, no chunk is longer than chunk_size
\* plus the 200 characters the sentence-boundary search looks ahead.
C10_ChunkAtMostChunkSizePlusWindow ==
    chunk_size >= 0 =>
        \A i \in 1..Len(chunks) :
            ChunkLen(chunks[i]) <= chunk_size + SearchWindow

\* A finished run on a content longer than chunk_size whose first cut the
\* sentence-boundary search moved forward as far as it can go.
C10_Witness ==
    /\ cpc = "done"
    /\ chunk_size >= 1
    /\ content.len > chunk_size
    /\ \E i \in 1..Len(chunks) :
          ChunkLen(chunks[i]) = chunk_size + SearchWindow

\* ------------------------------------------------------------------------
\* Properties of extract_sections
\* ------------------------------------------------------------------------
SectLines == SplitLines(sect_content)

HeaderLines == {i \in 1..Len(SectLines) : IsHeader(SectLines[i])}

FirstHeader == CHOOSE i \in HeaderLines : \A j \in HeaderLines : i <= j

SecondHeader == CHOOSE i \in HeaderLines : \A j \in HeaderLines : j <= i

\* The lines strictly between line h and line next, joined and trimmed.
LinesBetween(h, next) ==
    Strip(JoinLines(SubSeq(SectLines, h + 1, next - 1)))

\* One entry per header, each with the lines up to the next header.
TwoEntriesOnePerHeader ==
    LET t1 == Strip(SectLines[FirstHeader])
        t2 == Strip(SectLines[SecondHeader])
    IN /\ Cardinality(DOMAIN sections) = 2
       /\ DOMAIN sections = {t1, t2}
       /\ sections[t1] = LinesBetween(FirstHeader, SecondHeader)
       /\ sections[t2] = LinesBetween(SecondHeader, Len(SectLines) + 1)

\* C9 as claimed: any document with exactly two header lines yields exactly
\* two entries, one per header, with the lines between as bodies.
C9_TwoHeadersTwoEntries ==
    (spc = "done" /\ Cardinality(HeaderLines) = 2) => TwoEntriesOnePerHeader

\* The two-header documents for which the mapping has one entry per header:
\* the first header is the first line (no "Introduction" text before it),
\* the two titles differ once trimmed, and at least one line follows each.
TwoPlainHeaders ==
    /\ Cardinality(HeaderLines) = 2
    /\ FirstHeader = 1
    /\ Strip(SectLines[FirstHeader]) # Strip(SectLines[SecondHeader])
    /\ SecondHeader > FirstHeader + 1
    /\ SecondHeader < Len(SectLines)

\* C9 as amended: a document with exactly two header lines, which starts
\* with a header, whose two titles differ and whose headers are each
\* followed by at least one line, yields exactly two entries, one per
\* header, each body being the lines up to the next header (or the end),
\* trimmed at its outer edges only.
C9_TwoPlainHeadersTwoEntries ==
    (spc = "done" /\ TwoPlainHeaders) => TwoEntriesOnePerHeader

\* A two-header document of that kind, with two lines under its first header.
C9_Witness ==
    /\ spc = "done"
    /\ TwoPlainHeaders
    /\ SecondHeader > FirstHeader + 2
    /\ Cardinality(DOMAIN sections) = 2

\* ------------------------------------------------------------------------
\* Properties of generate_prompt
\* ------------------------------------------------------------------------
\* The selected keys the catalog holds, in selection order.
KnownSelected == SelectSeq(p_sel, InCatalog)

HeadLines == 7 + Len(p_doc)

\* The lines of the prompt between the task heading and the instructions.
TaskList == SubSeq(prompt, HeadLines + 1, Len(prompt) - 9)

\* C8: generate_prompt returns the empty string for an empty selection;
\* otherwise the prompt holds the preamble, the delimited content, the task
\* heading, one task line per selected key of the catalog in selection order
\* (none for an unknown key), the instructions and the closing line.
C8_PromptShape ==
    ppc = "done" =>
        IF p_sel = <<>>
        THEN prompt = EmptyString
        ELSE /\ Len(prompt) = HeadLines + Len(KnownSelected) + 9
             /\ SubSeq(prompt, 1, HeadLines) = JoinParts(PromptHead(p_doc))
             /\ Len(TaskList) = Len(KnownSelected)
             /\ \A j \in 1..Len(TaskList) :
                   /\ TaskList[j].n >= 1
                   /\ TaskList[j].name = ActionName(KnownSelected[j])
                   /\ TaskList[j].instr = ActionPrompt(KnownSelected[j])
             /\ SubSeq(prompt, Len(prompt) - 8, Len(prompt)) = JoinParts(PromptTail)

\* A prompt compiled for a selection of unknown keys only: no task line,
\* and the preamble and the closing line are there.
C8_Witness ==
    /\ ppc = "done"
    /\ p_sel # <<>>
    /\ KnownSelected = <<>>
    /\ TaskList = <<>>
    /\ prompt # EmptyString
    /\ prompt[Len(prompt)] = TextLine("Please begin your analysis:")

\* ------------------------------------------------------------------------
\* Properties of the chat session
\* ------------------------------------------------------------------------
\* C3: content that validate_content marks invalid is gated out: no prompt
\* is compiled from it and the backend is never called for it.
C3_InvalidContentNeverSent ==
    pr.pc = "awaiting_ai" => validate_content(pr.document_content).is_valid

\* C4: process_document never returns or raises with the temporary file it
\* created still on disk.
C4_TempFileDeletedOnExit ==
    pd.pc = "exit" => TempFile \notin tmp_files

\* A part that is no integer, or an integer outside 1..number of actions.
BadPart(q) == ~q.isint \/ q.val < 1 \/ q.val > Len(ActionKeys)

HasBadPart(input) ==
    ~IsCommand(input, "all") /\ \E k \in 1..Len(input) : BadPart(input[k])

SelectionErrors == {"invalid_numbers", "invalid_format", "not_understood"}

\* C5: a selection message with an out-of-range index or a part that is no
\* integer is answered with an error and leaves the selection unchanged.
C5_BadSelectionRejected ==
    [][\A input \in UserInputs :
          (Truthy(document_content) /\ HasBadPart(input) /\ SelectActions(input))
              => (/\ selected_actions' = selected_actions
                  /\ reply'.kind \in SelectionErrors)]_vars

KeysInCatalog(selected) ==
    \A i \in 1..Len(selected) : selected[i] \in CatalogKeys

GoodPart(q) == ~BadPart(q)

\* The sequence a selection message names: every key of the catalog, or the
\* keys of its in-range numbers, one per number, in the message's order.
NamedKeys(input) ==
    IF IsCommand(input, "all") THEN ActionKeys
    ELSE LET good == SelectSeq(input, GoodPart)
         IN [i \in 1..Len(good) |-> ActionKeys[good[i].val]]

\* What a selection message can name.
NamedSelections == {NamedKeys(input) : input \in UserInputs}

C7_BackendErrorShownAsReport ==
    (pr.pc \in {"reported", "failed"} /\ pr.backend.kind = "error") =>
        /\ pr.pc = "reported"
        /\ ~pr.raised
        /\ pr.response = ErrorDescription(pr.backend.text)
        /\ pr_msg = format_response(ErrorDescription(pr.backend.text),
                                    pr.selected_actions, pr.document_name)
        /\ pr_msg.kind = "report"
        /\ pr_msg.header # "" /\ pr_msg.rule # "" /\ pr_msg.footer # ""

\* A report shown with the backend's error as its body.
C7_Witness ==
    /\ pr.pc = "reported"
    /\ pr.backend.kind = "error"
    /\ pr_msg.kind = "report"
    /\ pr_msg.body = ErrorDescription("Connection error.")

\* The names that end, in any letter case, in .pdf, .docx or .txt.
EndsInSupportedExtension(name) ==
    name.suffix \in {".pdf", ".PDF", ".docx", ".DOCX", ".txt", ".TXT"}

\* C11: an upload whose name does not end, in any letter case, in .pdf,
\* .docx or .txt is rejected before extraction: it is answered with the
\* unsupported-file-type message, process_document is not invoked for it,
\* no temporary file is created for it, and the session's document content,
\* document name and selected actions are unchanged.
C11_UnsupportedUploadRejected ==
    [][/\ \A file \in Uploads :
             (~EndsInSupportedExtension(file.name) /\ UploadStart(file))
                 => /\ reply'.kind = "unsupported_file_type"
                    /\ UNCHANGED <<sessionVars, up, pd, tmp_files>>
       /\ up'.pc # "idle" => EndsInSupportedExtension(up'.file.name)
       /\ pd'.pc # "idle" => EndsInSupportedExtension(up'.file.name)
       /\ \A name \in tmp_files' : EndsInSupportedExtension(name)]_vars

\* An unsupported upload answered while the session holds a document and a
\* selection, with no upload running and no temporary file on disk.
C11_Witness ==
    /\ reply.kind = "unsupported_file_type"
    /\ Truthy(document_content)
    /\ selected_actions # <<>>
    /\ up = UpIdle
    /\ pd = PdIdle
    /\ tmp_files = {}

\* C12: whenever process compiles a prompt, the content it compiles is the
\* content the session holds at that moment, and the name it will put in the
\* report is the name the session holds with that content, in every
\* interleaving of the session's handlers.
C12_CompiledContentIsSessionContent ==
    [][ProcessCallAI => /\ pr.document_content = document_content
                        /\ pr.document_name = document_name]_vars

\* C13: a successful upload stores the new document's content and its name
\* in one step and leaves the selection as it was; content and name change
\* only in such a step, and the next process command reads the session's
\* selection as it stands, so a selection made for an earlier document is
\* used for the new one.
C13_UploadReplacesDocumentKeepsSelection ==
    [][/\ (up.pc = "extracting" /\ up'.pc = "stored")
             => /\ Truthy(pd.value)
                /\ document_content' = pd.value
                /\ document_name' = up.file.name
                /\ selected_actions' = selected_actions
       /\ (started /\ <<document_content, document_name>>' # <<document_content, document_name>>)
             => (up.pc = "extracting" /\ up'.pc = "stored")
       /\ (pr.pc = "idle" /\ pr'.pc = "sending")
             => /\ pr'.document_content = document_content
                /\ pr'.document_name = document_name
                /\ pr'.selected_actions = selected_actions]_vars

\* A document just stored over an earlier one: a process command that read
\* the earlier document and its selection is still waiting for the backend,
\* and the session holds the new document with that same selection.
C13_Witness ==
    /\ up.pc = "stored"
    /\ document_name = up.file.name
    /\ pr.pc = "awaiting_ai"
    /\ pr.document_name # document_name
    /\ pr.document_content # document_content
    /\ selected_actions # <<>>
    /\ pr.selected_actions = selected_actions

\* The session lacks what a process command needs.
NotReady == ~Truthy(document_content) \/ selected_actions = <<>>

====
